---- MODULE Spec2Model ----
(***************************************************************************)
(* A model of trends.py: the USGS query client (retrieveData), the         *)
(* main-event fetcher (saveMainEvents), the precursor fetcher              *)
(* (savePrecursorEvents), the plotting stage and the script entry point.   *)
(*                                                                         *)
(* Spec        the script as a process: runs of __main__, each of which    *)
(*             may be interrupted and started again on the same directory. *)
(* SpecQuery   retrieveData's construction of the query URL.               *)
(* SpecWindow  savePrecursorEvents' computation of starttime and endtime.  *)
(* SpecFreq    plotEQFrequency's filtering of the merged table.            *)
(***************************************************************************)
EXTENDS Integers, Sequences, FiniteSets, Bags, TLC

VARIABLES
    catalog,      \* what the USGS API holds: the answers to the queries
    pc,           \* position of the script
    runs,         \* number of times the script has been started
    save_data,    \* sys.argv[2] of the current run, as int(save_data) tests it
    err,          \* the uncaught exception that ended the run, if any
    caller,       \* which function called retrieveData
    url,          \* the query retrieveData is fetching
    attempts,     \* failed attempts of the current retrieveData call (saturating)
    slept,        \* seconds slept since the last network request
    precReq,      \* a request was issued in this call of savePrecursorEvents
    data,         \* the main-events table in memory (<<>> before it is fetched)
    line,         \* position of data.itertuples() in the first loop
    dprec,        \* the table retrieveData returned for the current main event
    mainFile,     \* strongEQ_USGS.csv
    precFiles,    \* strongEQ_prec_<i>_USGS.csv, by i, for the files that exist
    mergedFile,   \* strongEQ_precursors_USGS.csv
    pngs,         \* the PNG files on disk
    dprec_total,  \* the table savePrecursorEvents returns
    queried,      \* main events queried in this call of savePrecursorEvents
    startFiles,   \* per-event files on disk when savePrecursorEvents was called
    resumed,      \* the previous run was killed inside the per-event loop
    kwargs,       \* SpecQuery: the keyword arguments, in iteration order
    query_url,    \* SpecQuery: the URL built from them
    ltime,        \* SpecWindow: line.time
    window,       \* SpecWindow: the starttime and endtime computed
    df,           \* SpecFreq: the merged table read by plotEQFrequency
    plotted       \* SpecFreq: the groups plotted (<<>> before the plot)

procVars == <<catalog, pc, runs, save_data, err, caller, url, attempts, slept,
              precReq, data, line, dprec, mainFile, precFiles, mergedFile, pngs,
              dprec_total, queried, startFiles, resumed>>
queryVars == <<kwargs, query_url>>
windowVars == <<ltime, window>>
freqVars == <<df, plotted>>
pureVars == <<queryVars, windowVars, freqVars>>
vars == <<procVars, pureVars>>

\* ------------------------------------------------------------------ bounds
MaxEvents == 3      \* rows of the main-events table
MaxRows == 2        \* rows the API returns for one precursor query
MaxRuns == 2        \* starts of the script on one directory
MaxAttempts == 2    \* failed attempts counted per retrieveData call

Min(a, b) == IF a < b THEN a ELSE b

\* ------------------------------------------------------- tables and files
\* A table is a sequence of rows; a row is a record with its index label and
\* its columns. A csv file written with index=0 holds the columns only.

\* The table pandas parses from the API's answer: a RangeIndex from 0.
MainResponse(n) == [k \in 1..n |-> [index |-> k - 1, id |-> <<-1, k>>]]
PrecResponse(i) ==
    [k \in 1..catalog.prec[i] |-> [index |-> k - 1, id |-> <<i, k>>]]

ToCsv(t) == [k \in 1..Len(t) |-> [c \in DOMAIN t[k] \ {"index"} |-> t[k][c]]]
ReadCsv(f) == [k \in 1..Len(f) |-> f[k] @@ [index |-> k - 1]]

\* Mutant: the existence check never finds the file.
IsFileNever(i) == FALSE

\* os.path.isfile(fn) for the per-event file of main event i.
IsFile(i) == i \in DOMAIN precFiles

\* Mutant: the column holds the position of the line, counted from 1.
AddMainEventPosition(t, line0) ==
    [k \in 1..Len(t) |-> t[k] @@ [main_event |-> line0 + 1]]

\* dprec['main_event'] = pd.Series([line[0]]*len(dprec.time), index=dprec.index)
AddMainEvent(t, line0) == [k \in 1..Len(t) |-> t[k] @@ [main_event |-> line0]]

\* dprec.index = dprec.index + len(all[-1].index) if all else dprec.index
ShiftIndex(t, prev) ==
    IF Len(prev) > 0
    THEN [k \in 1..Len(t) |->
            [t[k] EXCEPT !.index = @ + Len(prev[Len(prev)])]]
    ELSE t

\* The second loop of savePrecursorEvents over the first j lines of table t,
\* reading the per-event files from files.
RECURSIVE ReadAll(_, _, _)
ReadAll(files, t, j) ==
    IF j = 0 THEN <<>>
    ELSE LET all == ReadAll(files, t, j - 1)
         IN  Append(all, ShiftIndex(ReadCsv(files[t[j].index]), all))

RECURSIVE Concat(_)
Concat(all) == IF all = <<>> THEN <<>> ELSE Head(all) \o Concat(Tail(all))

\* The per-event file the first loop writes for main event i.
PrecFile(i) == ToCsv(AddMainEvent(PrecResponse(i), i))

\* ------------------------------------------------------------ the script
\* The process before it is started.
ProcFresh ==
    /\ pc = "idle"
    /\ runs = 0
    /\ save_data = FALSE
    /\ err = "none"
    /\ caller = "none"
    /\ url = <<>>
    /\ attempts = 0
    /\ slept = 0
    /\ precReq = FALSE
    /\ data = <<>>
    /\ line = 0
    /\ dprec = <<>>
    /\ mainFile = <<>>
    /\ mergedFile = <<>>
    /\ pngs = {}
    /\ dprec_total = <<>>
    /\ queried = {}
    /\ startFiles = {}
    /\ resumed = FALSE

ProcInit ==
    /\ catalog \in {c \in [n : 1..MaxEvents,
                           prec : [0..(MaxEvents - 1) -> 0..MaxRows]] :
                      \A i \in c.n..(MaxEvents - 1) : c.prec[i] = 0}
    \* fn_base may hold per-event files of earlier use, in any combination
    /\ precFiles \in {[i \in S |-> PrecFile(i)] : S \in SUBSET (0..(catalog.n - 1))}
    /\ ProcFresh

\* The script is not run: the state of the specifications of single functions.
ProcIdle ==
    /\ catalog = [n |-> 1, prec |-> [i \in 0..(MaxEvents - 1) |-> 0]]
    /\ precFiles = <<>>
    /\ ProcFresh

QueryInit == kwargs = <<>> /\ query_url = <<>>
WindowInit == ltime = <<>> /\ window = <<>>
FreqInit == df = <<>> /\ plotted = <<>>

Init == ProcInit /\ QueryInit /\ WindowInit /\ FreqInit

Running == pc \notin {"idle", "stopped", "error"}

\* The script is inside the first loop of savePrecursorEvents.
InPrecLoop ==
    \/ pc = "itertuples" /\ line <= Len(data[1])
    \/ pc \in {"read_csv", "sleep60"} /\ caller = "prec"
    \/ pc \in {"prec_to_csv", "sleep1"}

\* python trends.py my_path <save_data>: a fresh process on the same directory.
Start(sd) ==
    /\ ~Running
    /\ runs < MaxRuns
    /\ runs' = runs + 1
    /\ save_data' = sd
    /\ pc' = IF sd THEN "saveMainEvents" ELSE "plotEQHistory"
    /\ err' = "none"
    /\ caller' = "none"
    /\ url' = <<>>
    /\ attempts' = 0
    /\ slept' = 0
    /\ precReq' = FALSE
    /\ data' = <<>>
    /\ line' = 0
    /\ dprec' = <<>>
    /\ dprec_total' = <<>>
    /\ queried' = {}
    /\ startFiles' = {}
    /\ UNCHANGED pureVars
    /\ UNCHANGED <<catalog, mainFile, precFiles, mergedFile, pngs, resumed>>

\* saveMainEvents up to its call of retrieveData.
SaveMainEvents ==
    /\ pc = "saveMainEvents"
    /\ caller' = "main"
    /\ url' = <<"main">>
    /\ attempts' = 0
    /\ pc' = "read_csv"
    /\ UNCHANGED pureVars
    /\ UNCHANGED <<catalog, runs, save_data, err, slept, precReq, data, line,
                   dprec, mainFile, precFiles, mergedFile, pngs, dprec_total,
                   queried, startFiles, resumed>>

\* The request is on the wire: pd.read_csv(url, ...) in retrieveData's loop.
Requested ==
    /\ slept' = 0
    /\ precReq' = (precReq \/ caller = "prec")
    /\ queried' = IF caller = "prec" THEN queried \cup {url[2]} ELSE queried

\* read_csv succeeds: break, return data.
RetrieveReturn ==
    /\ pc = "read_csv"
    /\ Requested
    /\ IF caller = "main"
       THEN /\ data' = <<MainResponse(catalog.n)>>
            /\ pc' = "main_to_csv"
            /\ UNCHANGED dprec
       ELSE /\ dprec' = <<PrecResponse(url[2])>>
            /\ pc' = "prec_to_csv"
            /\ UNCHANGED data
    /\ UNCHANGED pureVars
    /\ UNCHANGED <<catalog, runs, save_data, err, caller, url, attempts, line,
                   mainFile, precFiles, mergedFile, pngs, dprec_total,
                   startFiles, resumed>>

\* Mutant: the exception is not caught and ends the run.
RetrieveRaise ==
    /\ pc = "read_csv"
    /\ Requested
    /\ attempts' = Min(attempts + 1, MaxAttempts)
    /\ pc' = "error"
    /\ err' = "URLError"
    /\ UNCHANGED pureVars
    /\ UNCHANGED <<catalog, runs, save_data, caller, url, data, line,
                   dprec, mainFile, precFiles, mergedFile, pngs, dprec_total,
                   startFiles, resumed>>

\* read_csv raises: the bare except catches it.
RetrieveExcept ==
    /\ pc = "read_csv"
    /\ Requested
    /\ attempts' = Min(attempts + 1, MaxAttempts)
    /\ pc' = "sleep60"
    /\ UNCHANGED pureVars
    /\ UNCHANGED <<catalog, runs, save_data, err, caller, url, data, line,
                   dprec, mainFile, precFiles, mergedFile, pngs, dprec_total,
                   startFiles, resumed>>

\* time.sleep(60), then the loop tries again.
RetrieveSleep ==
    /\ pc = "sleep60"
    /\ slept' = slept + 60
    /\ pc' = "read_csv"
    /\ UNCHANGED pureVars
    /\ UNCHANGED <<catalog, runs, save_data, err, caller, url, attempts,
                   precReq, data, line, dprec, mainFile, precFiles, mergedFile,
                   pngs, dprec_total, queried, startFiles, resumed>>

\* data.to_csv(fn, index=0); return data; main then calls savePrecursorEvents.
MainToCsv ==
    /\ pc = "main_to_csv"
    /\ mainFile' = <<ToCsv(data[1])>>
    /\ pc' = "itertuples"
    /\ line' = 1
    /\ precReq' = FALSE
    /\ queried' = {}
    /\ startFiles' = DOMAIN precFiles
    /\ UNCHANGED pureVars
    /\ UNCHANGED <<catalog, runs, save_data, err, caller, url, attempts, slept,
                   data, dprec, precFiles, mergedFile, pngs, dprec_total, resumed>>

\* if os.path.isfile(fn): continue
PrecContinue ==
    /\ pc = "itertuples"
    /\ line <= Len(data[1])
    /\ IsFile(data[1][line].index)
    /\ line' = line + 1
    /\ UNCHANGED pureVars
    /\ UNCHANGED <<catalog, pc, runs, save_data, err, caller, url, attempts,
                   slept, precReq, data, dprec, mainFile, precFiles, mergedFile,
                   pngs, dprec_total, queried, startFiles, resumed>>

\* Mutant: the per-event file is created before the data are fetched.
PrecQueryOpensFile ==
    /\ pc = "itertuples"
    /\ line <= Len(data[1])
    /\ ~IsFile(data[1][line].index)
    /\ caller' = "prec"
    /\ url' = <<"prec", data[1][line].index>>
    /\ attempts' = 0
    /\ pc' = "read_csv"
    /\ precFiles' = (data[1][line].index :> <<>>) @@ precFiles
    /\ UNCHANGED pureVars
    /\ UNCHANGED <<catalog, runs, save_data, err, slept, precReq, data, line,
                   dprec, mainFile, mergedFile, pngs, dprec_total,
                   queried, startFiles, resumed>>

\* The window and the kwargs are built (SpecWindow) and retrieveData is called.
PrecQuery ==
    /\ pc = "itertuples"
    /\ line <= Len(data[1])
    /\ ~IsFile(data[1][line].index)
    /\ caller' = "prec"
    /\ url' = <<"prec", data[1][line].index>>
    /\ attempts' = 0
    /\ pc' = "read_csv"
    /\ UNCHANGED pureVars
    /\ UNCHANGED <<catalog, runs, save_data, err, slept, precReq, data, line,
                   dprec, mainFile, precFiles, mergedFile, pngs, dprec_total,
                   queried, startFiles, resumed>>

\* The main_event column is added and the per-event file written.
PrecToCsv ==
    /\ pc = "prec_to_csv"
    /\ LET line0 == data[1][line].index
           tagged == AddMainEvent(dprec[1], line0)
       IN  /\ dprec' = <<tagged>>
           /\ precFiles' = (line0 :> ToCsv(tagged)) @@ precFiles
    /\ pc' = "sleep1"
    /\ UNCHANGED pureVars
    /\ UNCHANGED <<catalog, runs, save_data, err, caller, url, attempts, slept,
                   precReq, data, line, mainFile, mergedFile, pngs, dprec_total,
                   queried, startFiles, resumed>>

\* Mutant: the loop goes to the next line without sleeping.
PrecNoSleep ==
    /\ pc = "sleep1"
    /\ line' = line + 1
    /\ pc' = "itertuples"
    /\ UNCHANGED pureVars
    /\ UNCHANGED <<catalog, runs, save_data, err, caller, url, attempts, slept,
                   precReq, data, dprec, mainFile, precFiles, mergedFile, pngs,
                   dprec_total, queried, startFiles, resumed>>

\* time.sleep(1), then the next line.
PrecSleep ==
    /\ pc = "sleep1"
    /\ slept' = slept + 1
    /\ line' = line + 1
    /\ pc' = "itertuples"
    /\ UNCHANGED pureVars
    /\ UNCHANGED <<catalog, runs, save_data, err, caller, url, attempts,
                   precReq, data, dprec, mainFile, precFiles, mergedFile, pngs,
                   dprec_total, queried, startFiles, resumed>>

\* The second loop, pd.concat, to_csv and return; main goes on to the plots.
PrecMerge ==
    /\ pc = "itertuples"
    /\ line > Len(data[1])
    /\ LET total == Concat(ReadAll(precFiles, data[1], Len(data[1])))
       IN  /\ dprec_total' = <<total>>
           /\ mergedFile' = <<ToCsv(total)>>
    /\ pc' = "plotEQHistory"
    /\ UNCHANGED pureVars
    /\ UNCHANGED <<catalog, runs, save_data, err, caller, url, attempts, slept,
                   precReq, data, line, dprec, mainFile, precFiles, pngs,
                   queried, startFiles, resumed>>

\* plotEQHistory: read_csv of the merged file raises when it is missing.
PlotEQHistory ==
    /\ pc = "plotEQHistory"
    /\ IF mergedFile = <<>>
       THEN /\ pc' = "error"
            /\ err' = "IOError"
            /\ UNCHANGED pngs
       ELSE /\ pc' = "plotSomething"
            /\ pngs' = pngs \cup {"plotEQMagHistory.png"}
            /\ UNCHANGED err
    /\ UNCHANGED pureVars
    /\ UNCHANGED <<catalog, runs, save_data, caller, url, attempts, slept,
                   precReq, data, line, dprec, mainFile, precFiles, mergedFile,
                   dprec_total, queried, startFiles, resumed>>

\* plotSomething() is defined nowhere: NameError.
PlotSomething ==
    /\ pc = "plotSomething"
    /\ pc' = "error"
    /\ err' = "NameError"
    /\ UNCHANGED pureVars
    /\ UNCHANGED <<catalog, runs, save_data, caller, url, attempts, slept,
                   precReq, data, line, dprec, mainFile, precFiles, mergedFile,
                   pngs, dprec_total, queried, startFiles, resumed>>

\* The process is killed; the files written so far stay.
Interrupt ==
    /\ Running
    /\ pc' = "stopped"
    /\ resumed' = (resumed \/ InPrecLoop)
    /\ UNCHANGED pureVars
    /\ UNCHANGED <<catalog, runs, save_data, err, caller, url, attempts, slept,
                   precReq, data, line, dprec, mainFile, precFiles, mergedFile,
                   pngs, dprec_total, queried, startFiles>>

Next ==
    \/ \E sd \in BOOLEAN : Start(sd)
    \/ SaveMainEvents
    \/ RetrieveReturn
    \/ RetrieveExcept
    \/ RetrieveSleep
    \/ MainToCsv
    \/ PrecContinue
    \/ PrecQuery
    \/ PrecToCsv
    \/ PrecSleep
    \/ PrecMerge
    \/ PlotEQHistory
    \/ PlotSomething
    \/ Interrupt

Spec == Init /\ [][Next]_vars

\* ------------------------------------------------- properties of the script
MainIds == {data[1][j].index : j \in 1..Len(data[1])}
PrecRequest == pc = "read_csv" /\ caller = "prec"
MergeStep == pc = "itertuples" /\ pc' = "plotEQHistory"

\* What a run that is never interrupted leaves, starting from an empty fn_base.
UninterruptedTotal ==
    Concat(ReadAll([i \in 0..(catalog.n - 1) |-> PrecFile(i)],
                   MainResponse(catalog.n), catalog.n))

\* C1: a run on a directory that holds the per-event files requests no event
\* whose file exists, and a merge that finds the merged file of an earlier run
\* of the same table writes the identical file.
C1_Rerun ==
    [][/\ PrecRequest => url[2] \notin DOMAIN precFiles
       /\ (MergeStep /\ mergedFile # <<>>) => mergedFile' = mergedFile]_vars

C1_Witness ==
    /\ runs = 2 /\ save_data /\ pc = "plotEQHistory"
    /\ "plotEQMagHistory.png" \in pngs
    /\ dprec_total # <<>> /\ Len(mergedFile[1]) >= 2
    /\ startFiles = 0..(catalog.n - 1) /\ catalog.n >= 2
    /\ queried = {}

\* C2: once savePrecursorEvents has merged, every row of the merged table and
\* of the merged file has a main_event that is the index of a main-events row.
C2_BackReference ==
    dprec_total # <<>> =>
        /\ \A k \in 1..Len(dprec_total[1]) :
              dprec_total[1][k].main_event \in MainIds
        /\ \A k \in 1..Len(mergedFile[1]) :
              mergedFile[1][k].main_event \in MainIds

C2_Witness ==
    /\ dprec_total # <<>>
    /\ \E j, k \in 1..Len(mergedFile[1]) :
          /\ mergedFile[1][j].main_event \in startFiles
          /\ mergedFile[1][k].main_event \in queried

\* C5: the full pipeline on a main-events table of two rows ends without an
\* uncaught error, with both per-event files, the merged file and both PNGs.
C5_EndToEnd ==
    (runs >= 1 /\ save_data /\ catalog.n = 2 /\ ~Running /\ pc # "stopped") =>
        /\ err = "none"
        /\ DOMAIN precFiles = {0, 1}
        /\ mergedFile # <<>>
        /\ \A k \in 1..Len(mergedFile[1]) : mergedFile[1][k].main_event \in {0, 1}
        /\ pngs = {"plotEQMagHistory.png", "plotEQFrequency.png"}

\* C6: a failed attempt of retrieveData leads only to the 60 second wait and
\* the wait only to another attempt at the same URL, whatever the number of
\* failures so far; the call returns only the API's answer to that URL, and no
\* run ends with an exception raised in retrieveData.
C6_RetryForever ==
    [][/\ (pc = "read_csv" /\ pc' # "stopped") =>
             \/ pc' = "sleep60" /\ url' = url /\ err' = "none"
             \/ /\ caller = "main" /\ pc' = "main_to_csv"
                /\ data' = <<MainResponse(catalog.n)>>
             \/ /\ caller = "prec" /\ pc' = "prec_to_csv"
                /\ dprec' = <<PrecResponse(url[2])>>
       /\ (pc = "sleep60" /\ pc' # "stopped") =>
             pc' = "read_csv" /\ url' = url /\ slept' = slept + 60
       /\ pc' = "error" => pc \notin {"read_csv", "sleep60"}]_vars

C6_Witness ==
    /\ pc = "prec_to_csv" /\ attempts = MaxAttempts
    /\ Len(dprec[1]) > 0

\* C7: in savePrecursorEvents every network request after the first of the
\* call is made with at least one second slept since the request before it.
C7_Spacing == (PrecRequest /\ precReq) => slept >= 1

C7_Witness ==
    /\ PrecRequest /\ precReq /\ slept = 1 /\ attempts = 0
    /\ \E j \in queried, i \in startFiles : j < i /\ i < url[2]

\* C9: no two rows of the table savePrecursorEvents returns have the same index.
C9_UniqueIndex ==
    dprec_total # <<>> =>
        \A j, k \in 1..Len(dprec_total[1]) :
            j # k => dprec_total[1][j].index # dprec_total[1][k].index

\* C10: a run on the files an interrupted run left queries exactly the main
\* events that had no per-event file when it started, and its merged table and
\* merged file are those of a run that was never interrupted.
C10_Resume ==
    /\ PrecRequest => url[2] \notin startFiles
    /\ dprec_total # <<>> =>
          /\ queried = (0..(catalog.n - 1)) \ startFiles
          /\ dprec_total = <<UninterruptedTotal>>
          /\ mergedFile = <<ToCsv(UninterruptedTotal)>>

C10_Witness ==
    /\ runs = 2 /\ resumed /\ dprec_total # <<>>
    /\ startFiles # {} /\ queried # {}
    /\ Len(dprec_total[1]) >= 2

\* ---------------------------------------------------- retrieveData's URL
\* A string is a sequence of one-character strings.
MaxArgs == 2        \* keyword arguments of one call

Digits == <<"0", "1", "2", "3", "4", "5", "6", "7", "8", "9">>

RECURSIVE IntStr(_)
IntStr(n) ==
    IF n < 10 THEN <<Digits[n + 1]>>
    ELSE IntStr(n \div 10) \o <<Digits[(n % 10) + 1]>>

\* str(v) for the values the script passes: an int, a float (held in tenths)
\* or a string.
Str(v) ==
    CASE v.type = "int" -> IntStr(v.val)
      [] v.type = "float" ->
            LET a == IF v.val < 0 THEN 0 - v.val ELSE v.val
            IN  (IF v.val < 0 THEN <<"-">> ELSE <<>>)
                \o IntStr(a \div 10) \o <<".">> \o <<Digits[(a % 10) + 1]>>
      [] OTHER -> v.val

\* Mutant: the separator is left out.
RECURSIVE JoinNoSeparator(_, _)
JoinNoSeparator(sep, list) ==
    IF list = <<>> THEN <<>>
    ELSE Head(list) \o JoinNoSeparator(sep, Tail(list))

\* sep.join(list)
RECURSIVE Join(_, _)
Join(sep, list) ==
    IF list = <<>> THEN <<>>
    ELSE IF Len(list) = 1 THEN list[1]
    ELSE list[1] \o sep \o Join(sep, Tail(list))

\* 'http://earthquake.usgs.gov/fdsnws/event/1/query?format=csv&'
Endpoint ==
    <<"h", "t", "t", "p", ":", "/", "/", "e", "a", "r", "t", "h", "q", "u",
      "a", "k", "e", ".", "u", "s", "g", "s", ".", "g", "o", "v", "/", "f",
      "d", "s", "n", "w", "s", "/", "e", "v", "e", "n", "t", "/", "1", "/",
      "q", "u", "e", "r", "y", "?", "f", "o", "r", "m", "a", "t", "=", "c",
      "s", "v", "&">>

\* url += '&'.join(['='.join([k,str(v)]) for k,v in kwargs.items()])
BuildUrl(kw) ==
    Endpoint \o Join(<<"&">>, [i \in 1..Len(kw) |->
                                  Join(<<"=">>, <<kw[i][1], Str(kw[i][2])>>)])

Keys == {<<"a">>, <<"a", "b">>, <<"b">>}
Values ==
    {[type |-> "int", val |-> 6], [type |-> "int", val |-> 100],
     [type |-> "float", val |-> 10], [type |-> "float", val |-> -5],
     [type |-> "str", val |-> <<"a", "b">>]}

\* The kwargs of a call, in the order kwargs.items() gives them: a mapping
\* holds a key once.
KwargsOf(n) ==
    {kw \in [1..n -> Keys \X Values] :
        \A i, j \in 1..n : i # j => kw[i][1] # kw[j][1]}

QueryStart ==
    /\ kwargs \in UNION {KwargsOf(n) : n \in 0..MaxArgs}
    /\ query_url = <<>>

\* if not kwargs: print(...); return
RetrieveNoArguments ==
    /\ kwargs = <<>>
    /\ query_url' = <<>>
    /\ UNCHANGED <<kwargs, procVars, windowVars, freqVars>>

\* The url is built and printed.
RetrieveUrl ==
    /\ kwargs # <<>>
    /\ query_url = <<>>
    /\ query_url' = <<BuildUrl(kwargs)>>
    /\ UNCHANGED <<kwargs, procVars, windowVars, freqVars>>

NextQuery ==
    \/ RetrieveNoArguments
    \/ RetrieveUrl

InitQuery == ProcIdle /\ QueryStart /\ WindowInit /\ FreqInit

SpecQuery == InitQuery /\ [][NextQuery]_vars

\* str.split(c)
RECURSIVE Split(_, _)
Split(str, c) ==
    IF \A i \in 1..Len(str) : str[i] # c THEN <<str>>
    ELSE LET i == CHOOSE i \in 1..Len(str) :
                    str[i] = c /\ \A j \in 1..(i - 1) : str[j] # c
         IN  <<SubSeq(str, 1, i - 1)>> \o Split(SubSeq(str, i + 1, Len(str)), c)

\* C4: the URL is the endpoint followed by a query string that, cut at '&',
\* is the pairs key=str(value) of kwargs, one per key, in iteration order.
C4_QueryString ==
    query_url # <<>> =>
        LET u == query_url[1]
            parts == Split(SubSeq(u, Len(Endpoint) + 1, Len(u)), "&")
        IN  /\ SubSeq(u, 1, Len(Endpoint)) = Endpoint
            /\ Len(parts) = Len(kwargs)
            /\ \A i \in 1..Len(kwargs) :
                  Split(parts[i], "=") = <<kwargs[i][1], Str(kwargs[i][2])>>

C4_Witness ==
    /\ query_url # <<>>
    /\ Len(kwargs) = 2
    /\ kwargs[1][1] = <<"a", "b">> /\ kwargs[2][1] = <<"a">>
    /\ kwargs[1][2].type = "float"

\* ------------------------------------ the window of savePrecursorEvents
\* A timestamp is a record of its calendar fields.
IsLeap(y) == (y % 4 = 0 /\ y % 100 # 0) \/ y % 400 = 0
DaysInMonth(y, m) ==
    IF m = 2 THEN (IF IsLeap(y) THEN 29 ELSE 28)
    ELSE IF m \in {4, 6, 9, 11} THEN 30 ELSE 31

\* line.time - pd.DateOffset(years=1): the same month, day and time of the
\* year before, the day cut to the length of the month.
MinusOneYear(t) ==
    [t EXCEPT !.year = @ - 1,
              !.day = Min(@, DaysInMonth(t.year - 1, t.month))]

\* line.time + pd.DateOffset(seconds=1)
PlusOneSecond(t) ==
    IF t.second < 59 THEN [t EXCEPT !.second = @ + 1]
    ELSE IF t.minute < 59 THEN [t EXCEPT !.second = 0, !.minute = @ + 1]
    ELSE IF t.hour < 23
         THEN [t EXCEPT !.second = 0, !.minute = 0, !.hour = @ + 1]
    ELSE IF t.day < DaysInMonth(t.year, t.month)
         THEN [t EXCEPT !.second = 0, !.minute = 0, !.hour = 0, !.day = @ + 1]
    ELSE IF t.month < 12
         THEN [t EXCEPT !.second = 0, !.minute = 0, !.hour = 0, !.day = 1,
                        !.month = @ + 1]
    ELSE [t EXCEPT !.second = 0, !.minute = 0, !.hour = 0, !.day = 1,
                   !.month = 1, !.year = @ + 1]

Pad2(n) == <<Digits[(n \div 10) + 1], Digits[(n % 10) + 1]>>
Pad4(n) == Pad2(n \div 100) \o Pad2(n % 100)

\* t.strftime('%Y-%m-%dT%H:%M:%S'); the script is Python 2 (its print
\* statement), whose strftime raises ValueError for a year before 1900.
StrftimeRaises(t) == t.year < 1900
Strftime(t) ==
    Pad4(t.year) \o <<"-">> \o Pad2(t.month) \o <<"-">> \o Pad2(t.day)
    \o <<"T">> \o Pad2(t.hour) \o <<":">> \o Pad2(t.minute)
    \o <<":">> \o Pad2(t.second)

\* str.replace(old, new): every occurrence, from the left, not overlapping.
RECURSIVE Replace(_, _, _)
Replace(str, old, new) ==
    IF Len(str) < Len(old) THEN str
    ELSE IF SubSeq(str, 1, Len(old)) = old
         THEN new \o Replace(SubSeq(str, Len(old) + 1, Len(str)), old, new)
    ELSE <<Head(str)>> \o Replace(Tail(str), old, new)

\* Mutant: the fallback keeps the start inside 1900, at the event itself.
WindowStartFloor(t) ==
    IF StrftimeRaises(MinusOneYear(t))
    THEN Strftime(t)
    ELSE Strftime(MinusOneYear(t))

\* try: start = (line.time - pd.DateOffset(years=1)).strftime(tfmt)
\* except ValueError: start = line.time.strftime(tfmt).replace('1900','1899')
WindowStart(t) ==
    IF StrftimeRaises(MinusOneYear(t))
    THEN Replace(Strftime(t), <<"1", "9", "0", "0">>, <<"1", "8", "9", "9">>)
    ELSE Strftime(MinusOneYear(t))

\* end = (line.time + pd.DateOffset(seconds=1)).strftime(tfmt)
WindowEnd(t) == Strftime(PlusOneSecond(t))

\* The main events are those of 1900-01-01 to 2016-11-01.
Years == {1900, 1901, 2000, 2004, 2015}
Months == {1, 2, 3, 12}
Days == {1, 19, 28, 29, 31}
Clock == {<<0, 0, 0>>, <<19, 0, 59>>, <<0, 19, 0>>, <<23, 59, 59>>}
Timestamps ==
    {[year |-> y, month |-> m, day |-> d,
      hour |-> c[1], minute |-> c[2], second |-> c[3]] :
        y \in Years, m \in Months, d \in Days, c \in Clock}

WindowStartState ==
    /\ ltime \in {<<t>> : t \in {t \in Timestamps :
                                    t.day <= DaysInMonth(t.year, t.month)}}
    /\ window = <<>>

\* One pass of the first loop up to the kwargs of the query.
ComputeWindow ==
    /\ window = <<>>
    /\ window' = <<[starttime |-> WindowStart(ltime[1]),
                    endtime |-> WindowEnd(ltime[1])]>>
    /\ UNCHANGED <<ltime, procVars, queryVars, freqVars>>

NextWindow == ComputeWindow

InitWindow == ProcIdle /\ QueryInit /\ WindowStartState /\ FreqInit

SpecWindow == InitWindow /\ [][NextWindow]_vars

DigitOf(c) == CHOOSE n \in 0..9 : Digits[n + 1] = c
Num2(str, i) == 10 * DigitOf(str[i]) + DigitOf(str[i + 1])

\* The timestamp a string YYYY-MM-DDTHH:MM:SS denotes.
WellFormed(str) ==
    /\ Len(str) = 19
    /\ str[5] = "-" /\ str[8] = "-" /\ str[11] = "T"
    /\ str[14] = ":" /\ str[17] = ":"
    /\ \A i \in (1..19) \ {5, 8, 11, 14, 17} :
          \E n \in 0..9 : Digits[n + 1] = str[i]
ParseTime(str) ==
    [year |-> 100 * Num2(str, 1) + Num2(str, 3), month |-> Num2(str, 6),
     day |-> Num2(str, 9), hour |-> Num2(str, 12), minute |-> Num2(str, 15),
     second |-> Num2(str, 18)]

\* Days from 0000-03-01 to the day of t in the Gregorian calendar.
DayNumber(t) ==
    LET y == IF t.month <= 2 THEN t.year - 1 ELSE t.year
        m == IF t.month <= 2 THEN t.month + 9 ELSE t.month - 3
    IN  365 * y + (y \div 4) - (y \div 100) + (y \div 400)
        + ((153 * m + 2) \div 5) + t.day - 1
\* Seconds from timestamp a to timestamp b.
SecondsBetween(a, b) ==
    86400 * (DayNumber(b) - DayNumber(a))
    + 3600 * (b.hour - a.hour) + 60 * (b.minute - a.minute)
    + (b.second - a.second)

FirstYear == 1970       \* df['1970':]
MicroOffset == 3        \* ... .mag.max().get(df['main_event']) - 3
MinGroupRows == 2000    \* ... .count().get(df.main_event).values>2000

\* The rows of table b that are in rows: df[mask].
Restrict(b, rows) == [r \in rows |-> b[r]]

RECURSIVE SumOver(_, _)
SumOver(b, rows) ==
    IF rows = {} THEN 0
    ELSE LET r == CHOOSE x \in rows : TRUE
         IN  b[r] + SumOver(b, rows \ {r})

GroupRows(b, g) == {r \in DOMAIN b : r.main_event = g}

\* df.groupby('main_event').mag.max() at g
GroupMax(b, g) ==
    CHOOSE m \in {r.mag : r \in GroupRows(b, g)} :
        \A r \in GroupRows(b, g) : r.mag <= m

\* df.groupby('main_event').main_event.count() at g
GroupCount(b, g) == SumOver(b, GroupRows(b, g))

\* df = df['1970':]
Since1970(b) == Restrict(b, {r \in DOMAIN b : r.year >= FirstYear})

\* df = df[df.mag < (df.groupby('main_event').mag.max().get(df['main_event']) - 3)]
MicroEvents(b) ==
    Restrict(b, {r \in DOMAIN b :
                    r.mag < GroupMax(b, r.main_event) - MicroOffset})

\* Mutant: groups of exactly the limit are kept.
LargeGroupsInclusive(b) ==
    Restrict(b, {r \in DOMAIN b : GroupCount(b, r.main_event) >= MinGroupRows})

\* df = df[df.groupby('main_event').main_event.count().get(df.main_event).values>2000]
LargeGroups(b) ==
    Restrict(b, {r \in DOMAIN b : GroupCount(b, r.main_event) > MinGroupRows})

\* for i,idf in df.groupby('main_event'): plt.plot(...)
PlottedGroups(b) == {r.main_event : r \in DOMAIN b}

Groups == {0, 1}
Row(g, y, m) == [main_event |-> g, year |-> y, mag |-> m]

\* The rows of one group: the main event and a stronger shock before 1970,
\* small precursors since 1970 and before it, and precursors exactly
\* MicroOffset below the main event.
GroupTables(g) ==
    {[r \in {Row(g, 1970, 7), Row(g, 1969, 8), Row(g, 1975, 3),
             Row(g, 1969, 3), Row(g, 1975, 4)} |->
        CASE r = Row(g, 1970, 7) -> c[1]
          [] r = Row(g, 1969, 8) -> c[2]
          [] r = Row(g, 1975, 3) -> c[3]
          [] r = Row(g, 1969, 3) -> c[4]
          [] OTHER -> c[5]] :
        c \in (0..1) \X (0..1)
              \X {0, MinGroupRows - 1, MinGroupRows, MinGroupRows + 1}
              \X (0..1) \X (0..1)}

\* A table keeps the rows it has: those of count 0 are not in it.
Present(b) == Restrict(b, {r \in DOMAIN b : b[r] > 0})

FreqStart ==
    /\ df \in {<<Present(a @@ b)>> : a \in GroupTables(0), b \in GroupTables(1)}
    /\ plotted = <<>>

\* plotEQFrequency from the read of the merged file to the plot.
PlotEQFrequency ==
    /\ plotted = <<>>
    /\ plotted' = <<PlottedGroups(LargeGroups(MicroEvents(Since1970(df[1]))))>>
    /\ UNCHANGED <<df, procVars, queryVars, windowVars>>

NextFreq == PlotEQFrequency

InitFreq == ProcIdle /\ QueryInit /\ WindowInit /\ FreqStart

SpecFreq == InitFreq /\ [][NextFreq]_vars

\* The rows of group g from 1970 on, and the largest magnitude among them.
Recent(g) == {r \in DOMAIN df[1] : r.main_event = g /\ r.year >= FirstYear}
RecentMax(g) ==
    CHOOSE m \in {r.mag : r \in Recent(g)} : \A r \in Recent(g) : r.mag <= m

\* C8 as stated: a group is plotted iff it has more than 2000 rows from 1970
\* on whose magnitude is at least 3 below the largest magnitude of the group.
C8_AtLeastThreeBelow ==
    plotted # <<>> =>
        \A g \in Groups :
            g \in plotted[1] <=>
                SumOver(df[1], {r \in Recent(g) :
                                   r.mag <= RecentMax(g) - MicroOffset})
                    > MinGroupRows

\* C8 as amended: a group is plotted iff it has more than 2000 rows from 1970
\* on whose magnitude is less than the largest magnitude of the group minus 3.
C8_MoreThanThreeBelow ==
    plotted # <<>> =>
        \A g \in Groups :
            g \in plotted[1] <=>
                SumOver(df[1], {r \in Recent(g) :
                                   r.mag < RecentMax(g) - MicroOffset})
                    > MinGroupRows

C8_Witness ==
    /\ plotted = <<{1}>>
    /\ Row(0, 1970, 7) \in DOMAIN df[1] /\ Row(1, 1970, 7) \in DOMAIN df[1]
    /\ Row(0, 1975, 3) \in DOMAIN df[1] /\ Row(1, 1975, 3) \in DOMAIN df[1]
    /\ df[1][Row(0, 1975, 3)] = MinGroupRows
    /\ df[1][Row(1, 1975, 3)] = MinGroupRows + 1

====
